---- MODULE Spec2Model ----
(***************************************************************************)
(* A model of the scene framework of model-styler: the SceneManager        *)
(* (registry, awaiting set, mailbox, active camera, render loop) of        *)
(* src/engine/core/SceneManager.js, the RayCast registry of                *)
(* src/unnamed/part_001 and the FirstPersonCameraManager of                *)
(* src/unnamed/part_000.                                                   *)
(*                                                                         *)
(* Every method is an operator from a record of the mutable fields to the  *)
(* record after the call, so that a method that calls another one (or a    *)
(* hook that calls back into the SceneManager) is the composition of the   *)
(* operators.  An action applies one method to the current state.          *)
(***************************************************************************)
EXTENDS Integers, Sequences, FiniteSets

VARIABLES
    sceneObjectMap,       \* SceneManager.sceneObjectMap: name -> object, in insertion order
    inactiveObjNameMap,   \* SceneManager.inactiveObjNameMap: names awaiting readiness
    messageMap,           \* SceneManager.messageMap: name -> queued messages (<<>>: no entry)
    activeCameraManager,  \* SceneManager.activeCameraManager (Null or an object)
    raycastObjectMap,     \* RayCast.raycastObjectMap: name -> list of objects
    raycastObjects,       \* RayCast.raycastObjects: the flat list used by intersectObjects
    inScene,              \* objects passed to addToScene and not since to removeFromScene
    ready,                \* what each object's isReady() answers now
    rafScheduled,         \* a requestAnimationFrame callback of renderLoop is pending
    error,                \* how the last call ended: "none" or the exception thrown
    calls,                \* the hook and renderer calls made by the last call, in order
    sentLog,              \* per recipient name: the broadcastTo calls addressed to it, in order
    recvLog,              \* per recipient name: the messages its hook received, in order
    lastOp,               \* the last call made on the SceneManager or RayCast
    reRegistered,         \* the last call registered the object the call before unregistered
    lastActivated,        \* the camera manager of the last setActiveCamera that returned
    rotation,             \* the first-person camera's rotation: x pitch, y yaw
    groupSceneObjects,    \* the sceneObjects array of the SceneObjectGroup: its children
    result                \* what the last call returned (Undefined: nothing)

vars == << sceneObjectMap, inactiveObjNameMap, messageMap, activeCameraManager,
           raycastObjectMap, raycastObjects, inScene, ready, rafScheduled, error,
           calls, sentLog, recvLog, lastOp, reRegistered, lastActivated, rotation,
           groupSceneObjects, result >>

----------------------------------------------------------------------------
(* Bounds of the model *)

\* broadcastTo calls made by the application (replies made by hooks come on top)
MaxSends == 2

\* pickable objects the RayCast owner map may hold before a further add is left out
MaxPick == 2

----------------------------------------------------------------------------
(* The objects of the scene *)

Null == "null"

Undefined == "undefined"

\* cam: a FirstPersonCameraManager; mdl: a drawable SceneObject that loads and whose
\* onMessage answers requests; inp: a SceneObject that is not drawable and overrides
\* isReady
Objs == {"cam", "mdl", "inp"}

\* cam2: a second FirstPersonCameraManager; inp2: a plain SceneObject constructed
\* with the name 'Input' as well; mdl2: a second drawable SceneObject that loads
\* grp: a SceneObjectGroup; kidA, kidB: SceneObjects that load, made to be children
\* of the group; mdl3: a drawable SceneObject that is ready, constructed with the
\* name 'Model' as well
AllObjs == Objs \cup {"cam2", "inp2", "mdl2", "grp", "kidA", "kidB", "mdl3"}

ObjName(o) ==
    CASE o = "cam" -> "Camera" [] o = "cam2" -> "Camera2" [] o \in {"mdl", "mdl3"} -> "Model"
      [] o = "mdl2" -> "Model2" [] o = "grp" -> "Group" [] o = "kidA" -> "KidA"
      [] o = "kidB" -> "KidB" [] OTHER -> "Input"

Names == {ObjName(o) : o \in Objs}

AllNames == {ObjName(o) : o \in AllObjs}

\* the objects that are a SceneObjectGroup
IsGroup(o) == o = "grp"

\* SceneObject.isDrawable is false unless overridden; SceneObjectGroup.isDrawable is
\* true
isDrawable(o) == o \in {"mdl", "mdl2", "mdl3"} \/ IsGroup(o)

\* only a camera manager has onActive, setAspectRatio, updateMatrices, getCamera
IsCameraManager(o) == o \in {"cam", "cam2"}

\* objects whose isReady is not the constant true of SceneObject
Loadable == {"mdl", "inp", "mdl2", "kidA", "kidB"}

\* getDrawables(): a sequence of {object, isRayCastable}
getDrawables(o) ==
    IF o = "mdl"
    THEN << [object |-> "meshA", isRayCastable |-> TRUE],
            [object |-> "meshB", isRayCastable |-> FALSE] >>
    ELSE IF o = "mdl2"
         THEN << [object |-> "meshC", isRayCastable |-> FALSE] >>
         ELSE IF o = "kidA"
              THEN << [object |-> "meshD", isRayCastable |-> FALSE] >>
              ELSE IF o = "mdl3"
                   THEN << [object |-> "meshE", isRayCastable |-> FALSE] >>
                   ELSE << >>

\* getLights(): a sequence of {object}
getLights(o) == << >>

\* objects whose onMessage answers a request ("ask") with broadcastTo(own name, sender, "tell")
Repliers == {"mdl"}

Payloads == {"ask", "tell"}

----------------------------------------------------------------------------
(* A JavaScript Map: a sequence of entries in insertion order *)

MapHas(m, k) == \E i \in DOMAIN m : m[i].key = k

MapIndex(m, k) == CHOOSE i \in DOMAIN m : m[i].key = k

\* Map.get of a map whose values are names of objects
MapGet(m, k) == IF MapHas(m, k) THEN m[MapIndex(m, k)].value ELSE Undefined

\* Map.set: an existing key keeps its place
MapSet(m, k, v) ==
    IF MapHas(m, k)
    THEN [m EXCEPT ![MapIndex(m, k)] = [key |-> k, value |-> v]]
    ELSE Append(m, [key |-> k, value |-> v])

MapDelete(m, k) == SelectSeq(m, LAMBDA e : e.key # k)

MapKeys(m) == [i \in DOMAIN m |-> m[i].key]

MapValues(m) == [i \in DOMAIN m |-> m[i].value]

Range(f) == {f[i] : i \in DOMAIN f}

----------------------------------------------------------------------------
(* RayCast *)

\* an element of raycastObjects: a pickable object, or (after remove) one of the
\* owner map's own per-name arrays, named by its owner
ObjectElem(obj) == [kind |-> "object", ref |-> obj]

ArrayElem(name) == [kind |-> "array", ref |-> name]

\* Array.indexOf of a pickable object: 0 stands for JavaScript's -1
indexOf(list, obj) ==
    IF \E i \in DOMAIN list : list[i] = ObjectElem(obj)
    THEN CHOOSE i \in DOMAIN list :
            /\ list[i] = ObjectElem(obj)
            /\ \A j \in DOMAIN list : list[j] = ObjectElem(obj) => i <= j
    ELSE 0

\* Array.splice(index, 1): index -1 (here 0) counts from the end
splice(list, idx) ==
    LET at == IF idx = 0 THEN Len(list) ELSE idx
    IN [i \in 1..(IF Len(list) = 0 THEN 0 ELSE Len(list) - 1) |->
            IF i < at THEN list[i] ELSE list[i + 1]]

RECURSIVE spliceAll(_, _)
spliceAll(list, objects) ==
    IF objects = << >> THEN list
    ELSE spliceAll(splice(list, indexOf(list, Head(objects))), Tail(objects))

\* Array.from(raycastObjectMap.values()): the per-name arrays themselves
ArrayFromValues(m) == [i \in DOMAIN m |-> ArrayElem(m[i].key)]

RayListOf(m, name) == IF MapHas(m, name) THEN m[MapIndex(m, name)].value ELSE << >>

\* RayCast.add
RayCast_add(s, name, raycastObject) ==
    [s EXCEPT
        !.raycastObjectMap =
            IF MapHas(@, name)
            THEN MapSet(@, name, Append(RayListOf(@, name), raycastObject))
            ELSE MapSet(@, name, << raycastObject >>),
        !.raycastObjects = Append(@, ObjectElem(raycastObject))]

RECURSIVE FlatValues(_)
\* the objects of every entry of an owner map, entry after entry
FlatValues(m) ==
    IF m = << >> THEN << >>
    ELSE [i \in DOMAIN Head(m).value |-> ObjectElem(Head(m).value[i])] \o FlatValues(Tail(m))

\* RayCast.remove rebuilding the flat list from the objects of every entry of the
\* owner map, the removed name's entry being still there
RayCast_remove_Flattened(s, name) ==
    IF MapHas(s.raycastObjectMap, name)
    THEN [s EXCEPT !.raycastObjects = FlatValues(s.raycastObjectMap)]
    ELSE s

\* RayCast.remove without the rebuilding of the flat list after the loop
RayCast_remove_SpliceOnly(s, name) ==
    IF MapHas(s.raycastObjectMap, name)
    THEN [s EXCEPT !.raycastObjects = spliceAll(@, RayListOf(s.raycastObjectMap, name))]
    ELSE s

\* RayCast.remove
RayCast_remove(s, name) ==
    IF MapHas(s.raycastObjectMap, name)
    THEN LET objects == RayListOf(s.raycastObjectMap, name)
             spliced == [s EXCEPT !.raycastObjects = spliceAll(@, objects)]
         IN [spliced EXCEPT !.raycastObjects = ArrayFromValues(s.raycastObjectMap)]
    ELSE s

----------------------------------------------------------------------------
(* The mutable state as one record, and the calls that are only recorded *)

State ==
    [ sceneObjectMap      |-> sceneObjectMap,
      inactiveObjNameMap  |-> inactiveObjNameMap,
      messageMap          |-> messageMap,
      activeCameraManager |-> activeCameraManager,
      raycastObjectMap    |-> raycastObjectMap,
      raycastObjects      |-> raycastObjects,
      inScene             |-> inScene,
      ready               |-> ready,
      rafScheduled        |-> rafScheduled,
      error               |-> "none",
      calls               |-> << >>,
      sentLog             |-> sentLog,
      recvLog             |-> recvLog,
      rotation            |-> rotation,
      groupSceneObjects   |-> groupSceneObjects,
      result              |-> Undefined ]

\* a recorded call: depth 0 when the SceneManager method under way makes it itself,
\* depth n + 1 when a hook called at depth n makes it through the SceneManager
Call(hook, obj, from, data, depth) ==
    [hook |-> hook, obj |-> obj, from |-> from, data |-> data, depth |-> depth]

Record(s, hook, obj) == [s EXCEPT !.calls = Append(@, Call(hook, obj, "", "", 0))]

\* a queued message, as broadcastTo builds it
Message(from, to, data) == [from |-> from, to |-> to, data |-> data]

\* an uncaught TypeError: the method under way stops here
Throw(s) == [s EXCEPT !.error = "TypeError"]

\* a SceneObjectGroup that is ready as soon as one of its children is
isReady_AnyChild(s, o) ==
    IF IsGroup(o)
    THEN \/ s.groupSceneObjects = << >>
         \/ \E i \in DOMAIN s.groupSceneObjects : s.ready[s.groupSceneObjects[i]]
    ELSE s.ready[o]

\* isReady(): what the object answers now; SceneObjectGroup.isReady is the
\* conjunction of its children's answers, true for no children
isReady(s, o) ==
    IF IsGroup(o)
    THEN \A i \in DOMAIN s.groupSceneObjects : s.ready[s.groupSceneObjects[i]]
    ELSE s.ready[o]

\* SceneObjectGroup.add: the child joins sceneObjects (its drawables and lights join
\* the cached lists, see SceneObjectGroup_getDrawables)
SceneObjectGroup_add(s, sceneObject) ==
    [s EXCEPT !.groupSceneObjects = Append(@, sceneObject)]

RECURSIVE SceneObjectGroup_getDrawables(_)
\* SceneObjectGroup.getDrawables: the drawables of the children in the order add
\* cached them
SceneObjectGroup_getDrawables(children) ==
    IF children = << >> THEN << >>
    ELSE getDrawables(Head(children)) \o SceneObjectGroup_getDrawables(Tail(children))

RECURSIVE forward(_, _, _)
\* the loop of onSceneStart, onSceneRender and onSceneEnd of a SceneObjectGroup over
\* its children: each child's hook is called by the group's, one level below it
forward(s, hook, children) ==
    IF children = << >> THEN s
    ELSE forward([s EXCEPT !.calls = Append(@, Call(hook, Head(children), "", "", 1))],
                 hook, Tail(children))

RECURSIVE forwardMessage(_, _, _, _, _)
\* the loop of SceneObjectGroup.onMessage over its children
forwardMessage(s, children, senderName, data, depth) ==
    IF children = << >> THEN s
    ELSE forwardMessage(
           [s EXCEPT
              !.calls = Append(@, Call("onMessage", Head(children), senderName, data, depth)),
              !.recvLog[ObjName(Head(children))] =
                  Append(@, Message(senderName, ObjName(Head(children)), data))],
           Tail(children), senderName, data, depth)

\* a lifecycle hook of an object: recorded, and forwarded by a SceneObjectGroup
hookOf(s, hook, o) ==
    IF IsGroup(o)
    THEN forward(Record(s, hook, o), hook, s.groupSceneObjects)
    ELSE Record(s, hook, o)

----------------------------------------------------------------------------
(* SceneManager: messaging *)

RECURSIVE broadcastTo(_, _, _, _, _)

\* the onMessage hook of an object: SceneObject's does nothing, a replier's
\* answers a request through the SceneManager it was handed
onMessage(s, o, senderName, data, depth) ==
    LET s1 == [s EXCEPT
                 !.calls = Append(@, Call("onMessage", o, senderName, data, depth)),
                 !.recvLog[ObjName(o)] = Append(@, Message(senderName, ObjName(o), data))]
    IN IF o \in Repliers /\ data = "ask"
       THEN broadcastTo(s1, ObjName(o), senderName, "tell", depth + 1)
       ELSE IF IsGroup(o)
            THEN forwardMessage(s1, s.groupSceneObjects, senderName, data, depth + 1)
            ELSE s1

\* broadcastTo queueing the message also when the recipient is registered
broadcastTo_AlsoQueues(s, from, to, data, depth) ==
    LET s0 == [s EXCEPT !.sentLog[to] = Append(@, Message(from, to, data)),
                        !.messageMap[to] = Append(@, Message(from, to, data))]
        sceneObject == MapGet(s0.sceneObjectMap, to)
    IN IF sceneObject # Undefined
       THEN onMessage(s0, sceneObject, from, data, depth)
       ELSE s0

\* SceneManager.broadcastTo
broadcastTo(s, from, to, data, depth) ==
    LET s0 == [s EXCEPT !.sentLog[to] = Append(@, Message(from, to, data))]
        sceneObject == MapGet(s0.sceneObjectMap, to)
    IN IF sceneObject # Undefined
       THEN onMessage(s0, sceneObject, from, data, depth)
       ELSE [s0 EXCEPT !.messageMap[to] = Append(@, Message(from, to, data))]

RECURSIVE deliverAll(_, _, _)
\* the loop of checkForMessages over the queued messages
deliverAll(s, sceneObject, messages) ==
    IF messages = << >> THEN s
    ELSE deliverAll(onMessage(s, sceneObject, Head(messages).from, Head(messages).data, 0),
                    sceneObject, Tail(messages))

\* checkForMessages without the messageMap.delete after the loop
checkForMessages_KeepsQueue(s, sceneObject) ==
    deliverAll(s, sceneObject, s.messageMap[ObjName(sceneObject)])

\* SceneManager.checkForMessages
checkForMessages(s, sceneObject) ==
    LET messages == s.messageMap[ObjName(sceneObject)]
    IN IF messages # << >>
       THEN [deliverAll(s, sceneObject, messages) EXCEPT !.messageMap[ObjName(sceneObject)] = << >>]
       ELSE s

RECURSIVE deliverToAll(_, _, _, _, _)
\* the loop of broadcastToAll over the keys of the registry
deliverToAll(s, keys, from, data, skipSender) ==
    IF keys = << >> THEN s
    ELSE deliverToAll(IF skipSender /\ Head(keys) = from
                      THEN s
                      ELSE onMessage(s, MapGet(s.sceneObjectMap, Head(keys)), from, data, 0),
                      Tail(keys), from, data, skipSender)

\* broadcastToAll without the comparison of the key with the sender
broadcastToAll_SenderToo(s, from, data) ==
    deliverToAll(s, MapKeys(s.sceneObjectMap), from, data, FALSE)

\* SceneManager.broadcastToAll
broadcastToAll(s, from, data) ==
    deliverToAll(s, MapKeys(s.sceneObjectMap), from, data, TRUE)

----------------------------------------------------------------------------
(* SceneManager: the scene *)

RECURSIVE addDrawables(_, _, _)
\* the loop of addToScene over the drawables
addDrawables(s, sceneObject, drawables) ==
    IF drawables = << >> THEN s
    ELSE addDrawables(IF Head(drawables).isRayCastable
                      THEN RayCast_add(s, ObjName(sceneObject), Head(drawables).object)
                      ELSE s,
                      sceneObject, Tail(drawables))

\* sceneObject.getDrawables()
drawablesOf(s, sceneObject) ==
    IF IsGroup(sceneObject)
    THEN SceneObjectGroup_getDrawables(s.groupSceneObjects)
    ELSE getDrawables(sceneObject)

\* SceneManager.addToScene
addToScene(s, sceneObject) ==
    [addDrawables(s, sceneObject, drawablesOf(s, sceneObject))
        EXCEPT !.inScene = @ \cup {sceneObject}]

RECURSIVE removeDrawables(_, _, _)
\* the loop of removeFromScene over the drawables
removeDrawables(s, sceneObject, drawables) ==
    IF drawables = << >> THEN s
    ELSE removeDrawables(IF Head(drawables).isRayCastable
                         THEN RayCast_remove(s, ObjName(sceneObject))
                         ELSE s,
                         sceneObject, Tail(drawables))

\* SceneManager.removeFromScene
removeFromScene(s, sceneObject) ==
    [removeDrawables(s, sceneObject, drawablesOf(s, sceneObject))
        EXCEPT !.inScene = @ \ {sceneObject}]

onSceneStart(s, o) == hookOf(s, "onSceneStart", o)

onSceneEnd(s, o) == hookOf(s, "onSceneEnd", o)

onSceneRender(s, o) == hookOf(s, "onSceneRender", o)

\* register leaving the entry of a name that is already registered as it is
register_KeepsFirst(s, sceneObject) ==
    LET s1 == IF MapHas(s.sceneObjectMap, ObjName(sceneObject))
              THEN s
              ELSE [s EXCEPT !.sceneObjectMap = MapSet(@, ObjName(sceneObject), sceneObject)]
        s2 == IF isDrawable(sceneObject) /\ ~isReady(s1, sceneObject)
              THEN [s1 EXCEPT !.inactiveObjNameMap = MapSet(@, ObjName(sceneObject), Null)]
              ELSE IF isReady(s1, sceneObject)
                   THEN onSceneStart(addToScene(s1, sceneObject), sceneObject)
                   ELSE s1
    IN checkForMessages(s2, sceneObject)

\* register adding a ready object to the scene without calling its start hook
register_NoStart(s, sceneObject) ==
    LET s1 == [s EXCEPT !.sceneObjectMap = MapSet(@, ObjName(sceneObject), sceneObject)]
        s2 == IF isDrawable(sceneObject) /\ ~isReady(s1, sceneObject)
              THEN [s1 EXCEPT !.inactiveObjNameMap = MapSet(@, ObjName(sceneObject), Null)]
              ELSE IF isReady(s1, sceneObject)
                   THEN addToScene(s1, sceneObject)
                   ELSE s1
    IN checkForMessages(s2, sceneObject)

\* SceneManager.register
register(s, sceneObject) ==
    LET s1 == [s EXCEPT !.sceneObjectMap = MapSet(@, ObjName(sceneObject), sceneObject)]
        s2 == IF isDrawable(sceneObject) /\ ~isReady(s1, sceneObject)
              THEN [s1 EXCEPT !.inactiveObjNameMap = MapSet(@, ObjName(sceneObject), Null)]
              ELSE IF isReady(s1, sceneObject)
                   THEN onSceneStart(addToScene(s1, sceneObject), sceneObject)
                   ELSE s1
    IN checkForMessages(s2, sceneObject)

\* SceneManager.unregister
unregister(s, name) ==
    LET sceneObject == MapGet(s.sceneObjectMap, name)
    IN IF sceneObject # Undefined
       THEN [onSceneEnd(removeFromScene(s, sceneObject), sceneObject)
                EXCEPT !.sceneObjectMap = MapDelete(@, name)]
       ELSE s

\* an onActive hook that sends nothing
onActive_NoRequest(s, cameraManager) == Record(s, "onActive", cameraManager)

\* the onActive hook: FirstPersonCameraManagerCore.onActive asks 'Input' for control
onActive(s, cameraManager) ==
    broadcastTo(Record(s, "onActive", cameraManager),
                ObjName(cameraManager), "Input", Null, 1)

\* SceneManager.setActiveCamera: an object without onActive makes the call throw
\* after the assignment
setActiveCamera(s, name) ==
    LET cameraManager == MapGet(s.sceneObjectMap, name)
    IN IF cameraManager # Undefined
       THEN LET s1 == [s EXCEPT !.activeCameraManager = cameraManager]
            IN IF IsCameraManager(cameraManager)
               THEN Record(onActive(s1, cameraManager), "setup", cameraManager)
               ELSE Throw(s1)
       ELSE s

\* worldToView and worldToRaster using, when there is no active camera, the first
\* camera manager of the registry
transform_FirstRegistered(s, method, worldPosition) ==
    LET cameras == SelectSeq(MapValues(s.sceneObjectMap), IsCameraManager)
        cameraManager == IF s.activeCameraManager = Null /\ cameras # << >>
                         THEN Head(cameras)
                         ELSE s.activeCameraManager
    IN IF cameraManager # Null /\ IsCameraManager(cameraManager)
       THEN [Record(s, method, cameraManager) EXCEPT
                !.result = [by |-> cameraManager, method |-> method, of |-> worldPosition]]
       ELSE Throw(s)

\* the body shared by worldToView and worldToRaster: the method of the same name of
\* the active camera manager; null, or an object without the method, makes the call
\* throw
transform(s, method, worldPosition) ==
    LET cameraManager == s.activeCameraManager
    IN IF cameraManager # Null /\ IsCameraManager(cameraManager)
       THEN [Record(s, method, cameraManager) EXCEPT
                !.result = [by |-> cameraManager, method |-> method, of |-> worldPosition]]
       ELSE Throw(s)

\* SceneManager.worldToView
worldToView(s, worldPosition) == transform(s, "worldToView", worldPosition)

\* SceneManager.worldToRaster
worldToRaster(s, worldPosition) == transform(s, "worldToRaster", worldPosition)

\* the viewport: window.innerWidth and window.innerHeight
innerWidth == 2

innerHeight == 2

\* RayCast.raycastFromCamera: getCamera() of null, or of an object that is no camera
\* manager, throws; so does THREE.Raycaster.intersectObjects on a list that holds an
\* array, which has none of the fields of an Object3D; otherwise the hits are those
\* the geometry gives, nearest first
raycastFromCamera(s, ndcCoord, cameraManager, hitObjects) ==
    IF cameraManager = Null \/ ~IsCameraManager(cameraManager)
    THEN Throw(s)
    ELSE LET s1 == [s EXCEPT !.calls = Append(@, Call("raycastFromCamera", cameraManager,
                                                       "", ndcCoord, 0))]
         IN IF \E i \in DOMAIN s1.raycastObjects : s1.raycastObjects[i].kind = "array"
            THEN Throw(s1)
            ELSE [s1 EXCEPT !.result = IF Len(hitObjects) > 0 THEN hitObjects ELSE << >>]

\* a raster coordinate that is undefined or null
MissingCoords == {[missing |-> Undefined], [missing |-> Null]}

\* the test of shootRayFromCamera on the raster coordinate
InViewport(rasterCoord, width, height) ==
    /\ rasterCoord \notin MissingCoords
    /\ rasterCoord.x >= 0 /\ rasterCoord.x < width
    /\ rasterCoord.y >= 0 /\ rasterCoord.y < height

\* the normalized device coordinate, as the numerators of x over innerWidth and of
\* y over innerHeight
Ndc(rasterCoord) ==
    [x |-> rasterCoord.x * 2 - innerWidth, y |-> innerHeight - rasterCoord.y * 2]

\* shootRayFromCamera taking a coordinate on the right or bottom edge for one inside
shootRayFromCamera_EdgeInside(s, rasterCoord, outlineNearest, hitObjects) ==
    IF InViewport(rasterCoord, innerWidth + 1, innerHeight + 1)
    THEN LET s1 == raycastFromCamera(s, Ndc(rasterCoord), s.activeCameraManager, hitObjects)
         IN IF s1.error = "none" /\ outlineNearest = "true" /\ Len(s1.result) > 0
            THEN Record(s1, "outlineObjects", s1.result[1])
            ELSE s1
    ELSE [s EXCEPT !.result = << >>]

\* SceneManager.shootRayFromCamera
shootRayFromCamera(s, rasterCoord, outlineNearest, hitObjects) ==
    IF InViewport(rasterCoord, innerWidth, innerHeight)
    THEN LET s1 == raycastFromCamera(s, Ndc(rasterCoord), s.activeCameraManager, hitObjects)
         IN IF s1.error = "none" /\ outlineNearest = "true" /\ Len(s1.result) > 0
            THEN Record(s1, "outlineObjects", s1.result[1])
            ELSE s1
    ELSE [s EXCEPT !.result = << >>]

\* the pitch limit of the first-person camera, in degrees
PitchLimit == 85

\* Maths.toDegrees, the rotation being counted in steps of pi/36 radians
toDegrees(radians) == radians * 5

\* onMoveEvent applying the drag whatever the pitch it gives
onMoveEvent_NoLimit(s, deltaX, deltaY) ==
    [s EXCEPT !.rotation = [x |-> @.x - deltaY, y |-> @.y - deltaX]]

\* FirstPersonCameraManagerCore.onMoveEvent
onMoveEvent(s, deltaX, deltaY) ==
    LET pitchDeg == toDegrees(s.rotation.x - deltaY)
        s1 == IF pitchDeg > 0 - PitchLimit /\ pitchDeg < PitchLimit
              THEN [s EXCEPT !.rotation.x = @ - deltaY]
              ELSE s
    IN [s1 EXCEPT !.rotation.y = @ - deltaX]

RECURSIVE promoteAll(_, _)
\* the loop of queryReadyObjects over the awaiting names; a name whose object is no
\* longer registered makes sceneObject.isReady() throw
promoteAll(s, names) ==
    IF names = << >> \/ s.error # "none" THEN s
    ELSE LET sceneObject == MapGet(s.sceneObjectMap, Head(names))
         IN promoteAll(
              IF sceneObject = Undefined THEN Throw(s)
              ELSE IF isReady(s, sceneObject)
                   THEN [onSceneStart(addToScene(s, sceneObject), sceneObject)
                            EXCEPT !.inactiveObjNameMap = MapDelete(@, Head(names))]
                   ELSE s,
              Tail(names))

\* SceneManager.queryReadyObjects
queryReadyObjects(s) ==
    IF Len(s.inactiveObjNameMap) > 0
    THEN promoteAll(s, MapKeys(s.inactiveObjNameMap))
    ELSE s

RECURSIVE notifyAll(_, _)
notifyAll(s, sceneObjects) ==
    IF sceneObjects = << >> THEN s
    ELSE notifyAll(onSceneRender(s, Head(sceneObjects)), Tail(sceneObjects))

\* SceneManager.notifyObjects
notifyObjects(s) == notifyAll(s, MapValues(s.sceneObjectMap))

\* renderLoop with the promotion, the draw and the render hooks outside the test for
\* an active camera manager
renderLoop_PromotesAnyway(s) ==
    LET cameraManager == s.activeCameraManager
        s1 == IF cameraManager # Null /\ IsCameraManager(cameraManager)
              THEN Record(Record(s, "setAspectRatio", cameraManager),
                          "updateMatrices", cameraManager)
              ELSE s
        s2 == queryReadyObjects(s1)
    IN IF cameraManager # Null /\ ~IsCameraManager(cameraManager)
       THEN [Throw(s) EXCEPT !.rafScheduled = FALSE]
       ELSE IF s2.error # "none"
            THEN [s2 EXCEPT !.rafScheduled = FALSE]
            ELSE [notifyObjects(Record(s2, "render", "renderer"))
                     EXCEPT !.rafScheduled = TRUE]

\* SceneManager.renderLoop: requestAnimationFrame is its last statement, reached
\* only if nothing before it throws
renderLoop(s) ==
    LET cameraManager == s.activeCameraManager
    IN IF cameraManager # Null
       THEN IF ~IsCameraManager(cameraManager)
            THEN [Throw(s) EXCEPT !.rafScheduled = FALSE]
            ELSE LET s1 == Record(Record(s, "setAspectRatio", cameraManager),
                                  "updateMatrices", cameraManager)
                     s2 == queryReadyObjects(s1)
                 IN IF s2.error # "none"
                    THEN [s2 EXCEPT !.rafScheduled = FALSE]
                    ELSE [notifyObjects(Record(s2, "render", "renderer"))
                             EXCEPT !.rafScheduled = TRUE]
       ELSE [s EXCEPT !.rafScheduled = TRUE]

----------------------------------------------------------------------------
(* Actions: one call of a method on the current state *)

Op(op, a, b, c) == [op |-> op, a |-> a, b |-> b, c |-> c]

Commit(s, op) ==
    /\ sceneObjectMap' = s.sceneObjectMap
    /\ inactiveObjNameMap' = s.inactiveObjNameMap
    /\ messageMap' = s.messageMap
    /\ activeCameraManager' = s.activeCameraManager
    /\ raycastObjectMap' = s.raycastObjectMap
    /\ raycastObjects' = s.raycastObjects
    /\ inScene' = s.inScene
    /\ ready' = s.ready
    /\ rafScheduled' = s.rafScheduled
    /\ error' = s.error
    /\ calls' = s.calls
    /\ sentLog' = s.sentLog
    /\ recvLog' = s.recvLog
    /\ lastOp' = op
    /\ reRegistered' = /\ op.op = "register"
                       /\ lastOp = Op("unregister", ObjName(op.a), "", "")
                       /\ calls = << Call("onSceneEnd", op.a, "", "", 0) >>
    /\ lastActivated' = IF op.op = "setActiveCamera" /\ s.error = "none"
                                /\ MapHas(sceneObjectMap, op.a)
                        THEN s.activeCameraManager
                        ELSE lastActivated
    /\ rotation' = s.rotation
    /\ groupSceneObjects' = s.groupSceneObjects
    /\ result' = s.result

RECURSIVE SumLen(_, _)
SumLen(f, S) ==
    IF S = {} THEN 0
    ELSE LET x == CHOOSE y \in S : TRUE IN Len(f[x]) + SumLen(f, S \ {x})

\* broadcastTo calls made so far
TotalSent == SumLen(sentLog, AllNames)

RECURSIVE SumValues(_)
SumValues(m) == IF m = << >> THEN 0 ELSE Len(Head(m).value) + SumValues(Tail(m))

\* pickable objects held by the owner map
PickTotal == SumValues(raycastObjectMap)

RayCastable(o) == SelectSeq(getDrawables(o), LAMBDA d : d.isRayCastable)

\* the application registers an object
Register(o) ==
    /\ PickTotal + Len(RayCastable(o)) <= MaxPick
    /\ Commit(register(State, o), Op("register", o, "", ""))

\* the application unregisters a name
Unregister(name) ==
    /\ name \in AllNames
    /\ Commit(unregister(State, name), Op("unregister", name, "", ""))

\* the application activates a camera by name
SetActiveCamera(name) ==
    /\ IsCameraManager(MapGet(sceneObjectMap, name)) => TotalSent < MaxSends
    /\ Commit(setActiveCamera(State, name), Op("setActiveCamera", name, "", ""))

\* the application sends a message
BroadcastTo(from, to, data) ==
    /\ TotalSent < MaxSends
    /\ Commit(broadcastTo(State, from, to, data, 0), Op("broadcastTo", from, to, data))

\* messages received by hooks before a further broadcastToAll is left out
MaxRecv == 3

\* messages received so far
TotalRecv == SumLen(recvLog, AllNames)

\* the application, or an object, sends a message to every registered object
BroadcastToAll(from, data) ==
    /\ TotalRecv < MaxRecv
    /\ TotalSent < MaxSends
    /\ Commit(broadcastToAll(State, from, data), Op("broadcastToAll", from, data, ""))

\* world positions handed to the transforms
Positions == {"origin", "corner"}

\* the application converts a world position to view space
WorldToView(worldPosition) ==
    /\ worldPosition \in Positions
    /\ Commit(worldToView(State, worldPosition), Op("worldToView", worldPosition, "", ""))

\* the application converts a world position to a raster coordinate
WorldToRaster(worldPosition) ==
    /\ worldPosition \in Positions
    /\ Commit(worldToRaster(State, worldPosition), Op("worldToRaster", worldPosition, "", ""))

\* raster coordinates handed to shootRayFromCamera: none, or a point in or around
\* the viewport
RasterCoords ==
    MissingCoords \cup [x : (0 - 1)..innerWidth, y : (0 - 1)..innerHeight]

\* the outlineNearest argument: a boolean, or left out
OutlineFlags == {"true", "false", Undefined}

\* the pickable objects of the flat list
Pickable == {e.ref : e \in {x \in Range(raycastObjects) : x.kind = "object"}}

\* what the intersection test may answer: no hit, or pickable objects nearest first
HitLists ==
    {<< >>} \cup {<< a >> : a \in Pickable}
            \cup {p \in Pickable \X Pickable : p[1] # p[2]}

\* a click: the application shoots a ray through a raster coordinate
ShootRayFromCamera(rasterCoord, outlineNearest, hitObjects) ==
    /\ hitObjects \in HitLists
    /\ Commit(shootRayFromCamera(State, rasterCoord, outlineNearest, hitObjects),
              Op("shootRayFromCamera", rasterCoord, outlineNearest, hitObjects))

\* the largest displacement of the cursor in one move event, in steps of pi/36
MaxDrag == 3

\* the yaw beyond which a further drag is left out
MaxYaw == 2

Drags == (0 - MaxDrag)..MaxDrag

\* the input manager reports a cursor drag to the first-person camera
OnMoveEvent(deltaX, deltaY) ==
    /\ rotation.y - deltaX \in (0 - MaxYaw)..MaxYaw
    /\ Commit(onMoveEvent(State, deltaX, deltaY), Op("onMoveEvent", deltaX, deltaY, ""))

\* the host runs the pending animation-frame callback
Tick ==
    /\ rafScheduled
    /\ Commit(renderLoop(State), Op("renderLoop", "", "", ""))

\* an object finishes loading: its isReady() answers true from now on
BecomeReady(o) ==
    /\ o \in Loadable
    /\ ~ready[o]
    /\ ready' = [ready EXCEPT ![o] = TRUE]
    /\ UNCHANGED << sceneObjectMap, inactiveObjNameMap, messageMap, activeCameraManager,
                    raycastObjectMap, raycastObjects, inScene, rafScheduled, error,
                    calls, sentLog, recvLog, lastOp, reRegistered, lastActivated,
                    rotation, groupSceneObjects, result >>

\* children a group may hold before a further add is left out
MaxChildren == 2

\* the application adds a child to the group
GroupAdd(sceneObject) ==
    /\ Len(groupSceneObjects) < MaxChildren
    /\ Commit(SceneObjectGroup_add(State, sceneObject), Op("add", sceneObject, "", ""))

\* direct calls of RayCast.add made before a further one is left out
MaxAdds == 3

\* objects handed to RayCast directly, and the names they are added under
RayObjs == {"meshA", "meshB"}

RayNames == {"Model", "Input"}

\* a direct call of RayCast.add
RayAdd(name, obj) ==
    /\ PickTotal < MaxAdds
    /\ Commit(RayCast_add(State, name, obj), Op("RayCast.add", name, obj, ""))

\* a direct call of RayCast.remove
RayRemove(name) ==
    /\ name \in RayNames
    /\ Commit(RayCast_remove(State, name), Op("RayCast.remove", name, "", ""))

\* the state when the SceneManager constructor returns: renderLoop has run once
\* without a camera and is scheduled again
Init ==
    /\ sceneObjectMap = << >>
    /\ inactiveObjNameMap = << >>
    /\ messageMap = [n \in AllNames |-> << >>]
    /\ activeCameraManager = Null
    /\ raycastObjectMap = << >>
    /\ raycastObjects = << >>
    /\ inScene = {}
    /\ ready = [o \in AllObjs |-> o \notin Loadable]
    /\ rafScheduled = TRUE
    /\ error = "none"
    /\ calls = << >>
    /\ sentLog = [n \in AllNames |-> << >>]
    /\ recvLog = [n \in AllNames |-> << >>]
    /\ lastOp = Op("new", "", "", "")
    /\ reRegistered = FALSE
    /\ lastActivated = Null
    /\ rotation = [x |-> 0, y |-> 0]
    /\ groupSceneObjects = << >>
    /\ result = Undefined

\* the scene: registration, activation, loading and the render loop
Next ==
    \/ \E o \in Objs : Register(o)
    \/ \E name \in Names : Unregister(name)
    \/ \E name \in Names : SetActiveCamera(name)
    \/ \E o \in Objs : BecomeReady(o)
    \/ Tick

Spec == Init /\ [][Next]_vars

\* names that exchange messages
MsgNames == {"Camera", "Model"}

\* the mailbox: registration and messages, the camera registering as Active and the
\* model, still loading, as awaiting
NextMsg ==
    \/ \E o \in Objs : ObjName(o) \in MsgNames /\ Register(o)
    \/ \E name \in MsgNames : Unregister(name)
    \/ \E from \in MsgNames, to \in MsgNames, data \in Payloads : BroadcastTo(from, to, data)

SpecMsg == Init /\ [][NextMsg]_vars

\* payloads of a message to all: a request, which a replier answers, and a notice
CastPayloads == {"ask", "note"}

\* messages to all, sent under the name of a registered object or of one that is not
NextAll ==
    \/ \E o \in Objs : ObjName(o) \in MsgNames /\ Register(o)
    \/ \E name \in MsgNames : Unregister(name)
    \/ \E from \in Names, data \in CastPayloads : BroadcastToAll(from, data)

SpecAll == Init /\ [][NextAll]_vars

\* objects and names of the scene with two cameras
CamObjs == {"cam", "cam2", "mdl"}

CamNames == {ObjName(o) : o \in CamObjs}

\* two cameras and a model: registration, activation and coordinate transforms
NextCam ==
    \/ \E o \in CamObjs : Register(o)
    \/ \E name \in CamNames : SetActiveCamera(name)
    \/ \E worldPosition \in Positions : WorldToView(worldPosition)
    \/ \E worldPosition \in Positions : WorldToRaster(worldPosition)

SpecCam == Init /\ [][NextCam]_vars

\* picking: a camera, a model that loads, and clicks
NextShoot ==
    \/ \E o \in {"cam", "mdl"} : Register(o)
    \/ Unregister("Model")
    \/ SetActiveCamera("Camera")
    \/ BecomeReady("mdl")
    \/ \E rasterCoord \in RasterCoords, outlineNearest \in OutlineFlags, hitObjects \in HitLists :
            ShootRayFromCamera(rasterCoord, outlineNearest, hitObjects)

SpecShoot == Init /\ [][NextShoot]_vars

\* objects of the scene with two models that load
TickObjs == {"cam", "mdl", "mdl2"}

\* a camera and two models that load: registration, loading and the render loop
NextTick ==
    \/ \E o \in TickObjs : Register(o)
    \/ \E name \in {"Model", "Model2"} : Unregister(name)
    \/ SetActiveCamera("Camera")
    \/ \E o \in TickObjs : BecomeReady(o)
    \/ Tick

SpecTick == Init /\ [][NextTick]_vars

ReplObjs == {"cam", "mdl", "mdl3"}

\* a camera and two models constructed with one name, one of which loads: each may
\* take the other's place in the registry
NextRepl ==
    \/ \E o \in ReplObjs : Register(o)
    \/ Unregister("Model")
    \/ SetActiveCamera("Camera")
    \/ BecomeReady("mdl")
    \/ Tick

SpecRepl == Init /\ [][NextRepl]_vars

GroupKids == {"kidA", "kidB"}

\* a group whose children load: it is built, registered, sent messages, unregistered,
\* and rendered through a camera
NextGroup ==
    \/ \E sceneObject \in GroupKids : GroupAdd(sceneObject)
    \/ \E o \in {"grp", "cam"} : Register(o)
    \/ Unregister("Group")
    \/ SetActiveCamera("Camera")
    \/ \E o \in GroupKids : BecomeReady(o)
    \/ \E data \in {"ask"} : BroadcastTo("Input", "Group", data)
    \/ Tick

SpecGroup == Init /\ [][NextGroup]_vars

\* the first-person camera under cursor drags
NextPitch ==
    \E deltaX \in Drags, deltaY \in Drags : OnMoveEvent(deltaX, deltaY)

SpecPitch == Init /\ [][NextPitch]_vars

\* objects of the scene in which two objects have the name 'Input'
DupObjs == {"cam", "inp", "inp2"}

\* two objects of one name: registration, messages to the name and the render loop
NextDup ==
    \/ \E o \in DupObjs : Register(o)
    \/ SetActiveCamera("Camera")
    \/ \E data \in Payloads : BroadcastTo("Camera", "Input", data)
    \/ BecomeReady("inp")
    \/ Tick

SpecDup == Init /\ [][NextDup]_vars

\* the RayCast registry on its own
NextRay ==
    \/ \E name \in RayNames, obj \in RayObjs : RayAdd(name, obj)
    \/ \E name \in RayNames : RayRemove(name)

SpecRay == Init /\ [][NextRay]_vars

----------------------------------------------------------------------------
(* What the claims speak of *)

\* o is the object the registry holds under its name
Registered(o) == MapGet(sceneObjectMap, ObjName(o)) = o

\* the name of o is in the awaiting-readiness set
NameAwaiting(o) == MapHas(inactiveObjNameMap, ObjName(o))

\* the drawables and lights of o have been added to the renderer
InRenderer(o) == o \in inScene

Awaiting(o) == Registered(o) /\ NameAwaiting(o) /\ ~InRenderer(o)

Active(o) == Registered(o) /\ InRenderer(o) /\ ~NameAwaiting(o)

\* the calls of one hook on one object among the recorded calls
HookCalls(cs, hook, o) == SelectSeq(cs, LAMBDA c : c.hook = hook /\ c.obj = o)

\* the calls the method under way made itself
DirectCalls(cs) == SelectSeq(cs, LAMBDA c : c.depth = 0)

IsPrefix(p, q) == Len(p) <= Len(q) /\ \A i \in DOMAIN p : p[i] = q[i]

CountIn(list, x) == Cardinality({i \in DOMAIN list : list[i] = x})

\* every message sent to a name is queued or was received, as often as it was sent
DeliveredOnce ==
    \A n \in Names : \A m \in Range(sentLog[n]) :
        CountIn(recvLog[n], m) + CountIn(messageMap[n], m) = CountIn(sentLog[n], m)

\* the hook calls that deliver the queue q to o, in order
QueueDeliveries(o, q) ==
    [i \in DOMAIN q |-> Call("onMessage", o, q[i].from, q[i].data, 0)]

----------------------------------------------------------------------------
(* C1..C10 *)

\* C1: a message sent with broadcastTo to a name that is not registered is queued
\* and no hook is called; when an object of that name is registered its message
\* hook is called by register once per queued message, in the order sent and with
\* the original sender and payload, and the queue of that name is then empty, so
\* that every message sent is, at any time, either queued or received exactly once.
C1_QueuedDeliveredOnce ==
    [][ /\ \A from \in Names, to \in Names, data \in Payloads :
            (lastOp' = Op("broadcastTo", from, to, data) /\ ~MapHas(sceneObjectMap, to))
            => /\ messageMap' = [messageMap EXCEPT ![to] = Append(@, Message(from, to, data))]
               /\ calls' = << >>
        /\ \A o \in Objs :
            lastOp' = Op("register", o, "", "")
            => /\ HookCalls(DirectCalls(calls'), "onMessage", o)
                    = QueueDeliveries(o, messageMap[ObjName(o)])
               /\ messageMap'[ObjName(o)] = << >>
        /\ DeliveredOnce'
      ]_vars

\* C1 witness: a register has just delivered two queued messages and emptied the queue
C1_Witness ==
    /\ lastOp.op = "register"
    /\ Len(HookCalls(DirectCalls(calls), "onMessage", lastOp.a)) >= 2
    /\ messageMap[ObjName(lastOp.a)] = << >>

\* C2: every object in the registry is in exactly one of the two sets: added to
\* the renderer, or awaiting readiness.
C2_ExactlyOneSet ==
    \A o \in Objs : Registered(o) => (InRenderer(o) /\ ~NameAwaiting(o)) \/ (NameAwaiting(o) /\ ~InRenderer(o))

\* C3 (as claimed): for every registered name, unregister(name) followed by register
\* of the same object leaves it Active and fires its start hook exactly once.
C3_ReregisterAnyRegistered ==
    [][ \A o \in Objs :
            ( /\ lastOp = Op("unregister", ObjName(o), "", "")
              /\ calls = << Call("onSceneEnd", o, "", "", 0) >>
              /\ lastOp' = Op("register", o, "", "") )
            => /\ Active(o)'
               /\ Len(HookCalls(calls', "onSceneStart", o)) = 1
      ]_vars

\* C3 (amended): for every registered name that is not in the awaiting set and
\* whose object reports ready, unregister(name) followed by register of the same
\* object leaves it Active (registered, in the renderer, not awaiting) and fires its
\* start hook exactly once.
C3_ReregisterReady ==
    [][ \A o \in Objs :
            ( /\ lastOp = Op("unregister", ObjName(o), "", "")
              /\ calls = << Call("onSceneEnd", o, "", "", 0) >>
              /\ ready[o]
              /\ ~NameAwaiting(o)
              /\ lastOp' = Op("register", o, "", "") )
            => /\ Active(o)'
               /\ Len(HookCalls(calls', "onSceneStart", o)) = 1
      ]_vars

\* C3 witness: the model, unregistered while in the renderer, has just been
\* registered again and is Active with one start hook call
C3_Witness ==
    /\ reRegistered
    /\ lastOp = Op("register", "mdl", "", "")
    /\ Active("mdl")
    /\ Len(HookCalls(calls, "onSceneStart", "mdl")) = 1

\* C4: the active camera is absent or is an object currently in the registry
\* under its name.
C4_ActiveCameraRegistered ==
    activeCameraManager = Null \/ Registered(activeCameraManager)

\* C5: after RayCast.remove(name) no object added under that name is an element
\* of the flat pickable list.
C5_RemovedNotPickable ==
    lastOp.op = "RayCast.remove"
    => \A obj \in Range(RayListOf(raycastObjectMap, lastOp.a)) :
            ObjectElem(obj) \notin Range(raycastObjects)

\* C5 witness: remove has just run on a name that had a pickable object, after the
\* same object was added under another name too
C5_Witness ==
    /\ lastOp.op = "RayCast.remove"
    /\ RayListOf(raycastObjectMap, lastOp.a) # << >>
    /\ \E name \in RayNames : name # lastOp.a /\ RayListOf(raycastObjectMap, name) # << >>

\* C6: RayCast.remove(name) takes exactly the objects of that owner out of the flat
\* list: an object of another owner that was an element before the call is one
\* after it, and no element is added.
C6_RemoveExactlyOwner ==
    [][ \A name \in RayNames :
            lastOp' = Op("RayCast.remove", name, "", "")
            => /\ \A other \in RayNames \ {name} :
                    \A obj \in Range(RayListOf(raycastObjectMap, other)) :
                        ObjectElem(obj) \in Range(raycastObjects)
                        => ObjectElem(obj) \in Range(raycastObjects')
               /\ Range(raycastObjects') \subseteq Range(raycastObjects)
      ]_vars

\* C7: the render loop is rescheduled by every tick: a callback is always pending.
C7_LoopNeverStops == rafScheduled

\* the state of an object as the SceneManager observes it
ObsState(o) ==
    IF ~Registered(o) THEN "Unregistered"
    ELSE IF Awaiting(o) THEN "Awaiting"
    ELSE IF Active(o) THEN "Active"
    ELSE "Neither"

\* C8: an object only moves Unregistered -> Awaiting -> Active -> Unregistered, or
\* from Unregistered straight to Active when it is registered ready; an object that
\* is not drawable is Active, with its start hook fired, as soon as register returns.
C8_Lifecycle ==
    [][ \A o \in Objs :
          /\ \/ ObsState(o)' = ObsState(o)
             \/ << ObsState(o), ObsState(o)' >> \in
                  { << "Unregistered", "Awaiting" >>, << "Awaiting", "Active" >>,
                    << "Active", "Unregistered" >>, << "Unregistered", "Active" >> }
          /\ (lastOp' = Op("register", o, "", "") /\ ~isDrawable(o))
             => Active(o)' /\ Len(HookCalls(calls', "onSceneStart", o)) = 1
      ]_vars

\* C9: broadcastTo to a registered name (Active or awaiting) calls the message hook
\* of its object at once, exactly once, with the sender and the payload; it creates
\* no queue entry for that name, and the mailbox is as before, but for the answer the
\* hook itself may send to a sender that is not registered.
C9_RegisteredDeliveredSync ==
    [][ \A from \in Names, to \in Names, data \in Payloads :
            (lastOp' = Op("broadcastTo", from, to, data) /\ MapHas(sceneObjectMap, to))
            => LET o == MapGet(sceneObjectMap, to)
               IN /\ DirectCalls(calls') = << Call("onMessage", o, from, data, 0) >>
                  /\ Head(calls') = Call("onMessage", o, from, data, 0)
                  /\ messageMap[to] = << >> /\ messageMap'[to] = << >>
                  /\ (o \notin Repliers \/ data # "ask")
                     => messageMap' = messageMap /\ Len(calls') = 1
                  /\ \/ messageMap' = messageMap
                     \/ /\ ~MapHas(sceneObjectMap, from)
                        /\ messageMap' = [messageMap EXCEPT
                                ![from] = Append(@, Message(to, from, "tell"))]
      ]_vars

\* C9 witness: a message has just been delivered to the model while it is awaiting,
\* with something queued for another name
C9_Witness ==
    /\ lastOp.op = "broadcastTo"
    /\ lastOp.b = "Model"
    /\ Awaiting("mdl")
    /\ calls = << Call("onMessage", "mdl", lastOp.a, lastOp.c, 0) >>
    /\ messageMap["Camera"] # << >>

\* C10: for each name, the messages its hook received are, in order, the first
\* messages sent to it.
C10_ReceiveOrderIsSendOrder ==
    \A n \in Names : IsPrefix(recvLog[n], sentLog[n])

----------------------------------------------------------------------------
(* C11..C20 *)

\* the hook calls that deliver a message to all to the objects under the keys, in order
CastDeliveries(keys, from, data) ==
    [i \in DOMAIN keys |-> Call("onMessage", MapGet(sceneObjectMap, keys[i]), from, data, 0)]

\* C11: broadcastToAll(from, data) calls the message hook exactly once on every
\* registered object whose name is not from, in registry order, and never on the
\* object named from; the mailbox is as before, but for the answers the hooks
\* themselves send to a sender that is not registered, and the hook of a name that
\* is not registered is not called; an object registered later receives, at its
\* registration, no message that was sent to all.
C11_BroadcastToAll ==
    [][ /\ \A from \in Names, data \in CastPayloads :
            lastOp' = Op("broadcastToAll", from, data, "")
            => /\ DirectCalls(calls')
                    = CastDeliveries(SelectSeq(MapKeys(sceneObjectMap), LAMBDA k : k # from),
                                     from, data)
               /\ \A c \in Range(DirectCalls(calls')) : ObjName(c.obj) # from
               /\ \A n \in AllNames :
                    /\ n # from => messageMap'[n] = messageMap[n]
                    /\ IsPrefix(messageMap[n], messageMap'[n])
                    /\ \A i \in DOMAIN messageMap'[n] :
                            i > Len(messageMap[n]) =>
                                /\ ~MapHas(sceneObjectMap, from)
                                /\ data = "ask"
                                /\ messageMap'[n][i].data = "tell"
                    /\ ~MapHas(sceneObjectMap, n) => recvLog'[n] = recvLog[n]
               /\ sceneObjectMap' = sceneObjectMap
        /\ \A o \in Objs :
            lastOp' = Op("register", o, "", "")
            => \A c \in Range(calls') : c.hook = "onMessage" => c.data \notin CastPayloads
      ]_vars

\* C11 witness: a message to all sent under the name of a registered object has just
\* reached the other registered object, the mailbox being empty
C11_Witness ==
    /\ lastOp = Op("broadcastToAll", "Camera", "note", "")
    /\ MapHas(sceneObjectMap, "Camera")
    /\ calls = << Call("onMessage", "mdl", "Camera", "note", 0) >>
    /\ \A n \in AllNames : messageMap[n] = << >>

\* C12: setActiveCamera(name) makes an object active only if name is registered and
\* names a camera manager: then the object is the active camera, its onActive hook
\* fires exactly once and the renderer is set up with its camera; otherwise the
\* active camera is as before and no hook is called and no renderer set up.
C12_OnlyCameraActivated ==
    [][ \A name \in Names :
            lastOp' = Op("setActiveCamera", name, "", "")
            => LET o == MapGet(sceneObjectMap, name)
               IN IF o # Undefined /\ IsCameraManager(o)
                  THEN /\ activeCameraManager' = o
                       /\ Len(HookCalls(calls', "onActive", o)) = 1
                       /\ Len(HookCalls(calls', "setup", o)) = 1
                       /\ error' = "none"
                  ELSE /\ activeCameraManager' = activeCameraManager
                       /\ calls' = << >>
      ]_vars

\* C13: worldToView and worldToRaster call the transform of the camera manager most
\* recently activated by a setActiveCamera that returned, and of no other object.
C13_DelegatesToLastActivated ==
    [][ \A method \in {"worldToView", "worldToRaster"}, worldPosition \in Positions :
            (lastOp' = Op(method, worldPosition, "", "") /\ lastActivated # Null)
            => /\ calls' = << Call(method, lastActivated, "", "", 0) >>
               /\ result' = [by |-> lastActivated, method |-> method, of |-> worldPosition]
      ]_vars

\* C14: while no camera has been set active, worldToView and worldToRaster end with
\* an error, call no method of any camera manager and return nothing, and leave the
\* registry, the awaiting set, the mailbox and the active-camera field as they were.
C14_NoActiveCameraError ==
    [][ \A method \in {"worldToView", "worldToRaster"}, worldPosition \in Positions :
            (lastOp' = Op(method, worldPosition, "", "") /\ lastActivated = Null)
            => /\ error' = "TypeError"
               /\ calls' = << >>
               /\ result' = Undefined
               /\ UNCHANGED << sceneObjectMap, inactiveObjNameMap, messageMap,
                               activeCameraManager, raycastObjectMap, raycastObjects,
                               inScene >>
      ]_vars

\* C14 witness: a transform has just failed with both cameras registered and no
\* camera set active
C14_Witness ==
    /\ lastOp.op \in {"worldToView", "worldToRaster"}
    /\ lastActivated = Null
    /\ activeCameraManager = Null
    /\ MapHas(sceneObjectMap, "Camera") /\ MapHas(sceneObjectMap, "Camera2")
    /\ error = "TypeError"

\* C15: shootRayFromCamera with a raster coordinate that is missing or outside the
\* viewport (x < 0, x >= width, y < 0 or y >= height) returns the empty sequence,
\* casts no ray, requests no outline and changes nothing, in any state; with a
\* coordinate inside, a ray cast that gives no hit returns the empty sequence and
\* requests no outline.
C15_EmptyOutsideViewport ==
    [][ lastOp'.op = "shootRayFromCamera"
        => LET rasterCoord == lastOp'.a
               hitObjects == lastOp'.c
           IN  /\ ( \/ rasterCoord \in MissingCoords
                    \/ rasterCoord.x < 0 \/ rasterCoord.x >= innerWidth
                    \/ rasterCoord.y < 0 \/ rasterCoord.y >= innerHeight )
                  => /\ error' = "none"
                     /\ calls' = << >>
                     /\ result' = << >>
                     /\ UNCHANGED << sceneObjectMap, inactiveObjNameMap, messageMap,
                                     activeCameraManager, raycastObjectMap,
                                     raycastObjects, inScene >>
               /\ (hitObjects = << >> /\ error' = "none")
                  => /\ result' = << >>
                     /\ \A c \in Range(calls') : c.hook # "outlineObjects"
      ]_vars

\* C15 witness: a click on the right edge of the viewport, with a camera active, a
\* pickable object and an outline asked for, has just returned the empty sequence
C15_Witness ==
    /\ lastOp.op = "shootRayFromCamera"
    /\ lastOp.a = [x |-> innerWidth, y |-> 0]
    /\ lastOp.b = "true"
    /\ activeCameraManager = "cam"
    /\ Pickable # {}
    /\ result = << >>

\* C16: unregister(name) of a registered object takes its drawables and lights out
\* of the renderer and its pickable objects out of RayCast (the flat list and the
\* owner map), fires its end hook exactly once and deletes the registry entry;
\* unregister of an unknown name changes nothing and fires no hook; and a
\* render-tick or message hook is only ever called on an object that is registered.
C16_UnregisterRemoves ==
    [][ /\ \A name \in Names :
            (lastOp' = Op("unregister", name, "", "") /\ ready' = ready)
            => LET o == MapGet(sceneObjectMap, name)
               IN IF o # Undefined
                  THEN /\ o \notin inScene'
                       /\ calls' = << Call("onSceneEnd", o, "", "", 0) >>
                       /\ ~MapHas(sceneObjectMap', name)
                       /\ \A d \in Range(getDrawables(o)) :
                            ObjectElem(d.object) \notin Range(raycastObjects')
                       /\ RayListOf(raycastObjectMap', name) = << >>
                  ELSE /\ calls' = << >>
                       /\ UNCHANGED << sceneObjectMap, inactiveObjNameMap, messageMap,
                                       activeCameraManager, raycastObjectMap,
                                       raycastObjects, inScene >>
        /\ ready' = ready
           => \A c \in Range(calls') :
                c.hook \in {"onSceneRender", "onMessage"}
                => MapGet(sceneObjectMap', ObjName(c.obj)) = c.obj
      ]_vars

\* C17: an object that is drawable and not ready when registered is parked as
\* awaiting, with no start hook and nothing added to the renderer; at the first
\* render tick with an active camera at which an awaiting object is ready, the
\* object is added to the renderer, its start hook fires exactly once and its name
\* leaves the awaiting set (so that repeated ticks make it Active); an awaiting
\* object that is not ready stays awaiting.
C17_AwaitingPromotedAtTick ==
    [][ ready' = ready
        => \A o \in AllObjs :
            /\ (lastOp' = Op("register", o, "", "") /\ isDrawable(o) /\ ~ready[o])
               => /\ Awaiting(o)'
                  /\ HookCalls(calls', "onSceneStart", o) = << >>
                  /\ inScene' = inScene
            /\ (lastOp' = Op("renderLoop", "", "", "") /\ Awaiting(o)
                    /\ activeCameraManager # Null)
               => IF ready[o]
                  THEN /\ Active(o)'
                       /\ Len(HookCalls(calls', "onSceneStart", o)) = 1
                  ELSE /\ Awaiting(o)'
                       /\ HookCalls(calls', "onSceneStart", o) = << >>
      ]_vars

\* C18: starting from a pitch strictly inside (-85, +85) degrees, the pitch of the
\* first-person camera stays strictly inside it after any sequence of drags, and a
\* drag whose resulting pitch would be outside leaves the pitch as it is (the yaw
\* follows the drag all the same).
C18_PitchWithinLimit ==
    /\ [](toDegrees(rotation.x) > 0 - PitchLimit /\ toDegrees(rotation.x) < PitchLimit)
    /\ [][ lastOp'.op = "onMoveEvent"
           => LET deltaX == lastOp'.a
                  deltaY == lastOp'.b
                  wouldBe == toDegrees(rotation.x - deltaY)
              IN /\ rotation'.x = IF wouldBe > 0 - PitchLimit /\ wouldBe < PitchLimit
                                  THEN rotation.x - deltaY
                                  ELSE rotation.x
                 /\ rotation'.y = rotation.y - deltaX
         ]_vars

\* C18 witness: a drag that would have taken the pitch past the limit has just been
\* handled at a pitch one step away from it
C18_Witness ==
    /\ lastOp.op = "onMoveEvent"
    /\ toDegrees(rotation.x + 1) >= PitchLimit
    /\ toDegrees(rotation.x - lastOp.b) >= PitchLimit

\* C19: each setActiveCamera of a registered first-person camera sends exactly one
\* message to 'Input', with the camera's name as sender and a null payload: the hook
\* of the object registered as 'Input' receives it at once, or, with no 'Input'
\* registered, it is queued and the hook of the object that next registers as
\* 'Input' receives it then, once.
C19_ActivationAsksInput ==
    [][ ready' = ready
        => /\ \A name \in Names :
                ( /\ lastOp' = Op("setActiveCamera", name, "", "")
                  /\ IsCameraManager(MapGet(sceneObjectMap, name)) )
                => LET request == Message(name, "Input", Null)
                       input == MapGet(sceneObjectMap, "Input")
                   IN /\ sentLog' = [sentLog EXCEPT !["Input"] = Append(@, request)]
                      /\ IF input # Undefined
                         THEN /\ SelectSeq(calls', LAMBDA c : c.hook = "onMessage")
                                    = << Call("onMessage", input, name, Null, 1) >>
                              /\ messageMap' = messageMap
                         ELSE /\ SelectSeq(calls', LAMBDA c : c.hook = "onMessage") = << >>
                              /\ messageMap' = [messageMap EXCEPT
                                                    !["Input"] = Append(@, request)]
           /\ \A o \in Objs :
                (lastOp' = Op("register", o, "", "") /\ ObjName(o) = "Input")
                => /\ HookCalls(calls', "onMessage", o)
                        = QueueDeliveries(o, messageMap["Input"])
                   /\ messageMap'["Input"] = << >>
           /\ DeliveredOnce'
      ]_vars

\* C19 witness: the camera was registered and made active before 'Input' was there,
\* and the registration of 'Input' has just delivered the camera's request
C19_Witness ==
    /\ lastOp = Op("register", "inp", "", "")
    /\ activeCameraManager = "cam"
    /\ HookCalls(calls, "onMessage", "inp") = << Call("onMessage", "inp", "Camera", Null, 0) >>
    /\ sentLog["Input"] = << Message("Camera", "Input", Null) >>
    /\ messageMap["Input"] = << >>

\* C20: registering an object under a name that is already registered raises no
\* error and replaces the entry in its place, the names of the registry staying
\* unique; afterwards every message hook and render-tick hook called for that name
\* is called on the object registered last, never on the one it replaced.
C20_LastWriteWins ==
    [][ ready' = ready
        => /\ \A o \in AllObjs :
                (lastOp' = Op("register", o, "", "") /\ MapHas(sceneObjectMap, ObjName(o)))
                => /\ error' = "none"
                   /\ MapGet(sceneObjectMap', ObjName(o)) = o
                   /\ MapKeys(sceneObjectMap') = MapKeys(sceneObjectMap)
           /\ \A i, j \in DOMAIN sceneObjectMap' :
                sceneObjectMap'[i].key = sceneObjectMap'[j].key => i = j
           /\ \A c \in Range(calls') :
                c.hook \in {"onMessage", "onSceneRender"}
                => /\ MapGet(sceneObjectMap', ObjName(c.obj)) = c.obj
                   /\ lastOp'.op # "register" => MapGet(sceneObjectMap, ObjName(c.obj)) = c.obj
      ]_vars

\* C20 witness: the first object named 'Input' was started and then replaced, and a
\* tick has just called the render-tick hook of the second and not of the first
C20_Witness ==
    /\ lastOp.op = "renderLoop"
    /\ "inp" \in inScene
    /\ MapGet(sceneObjectMap, "Input") = "inp2"
    /\ Len(HookCalls(calls, "onSceneRender", "inp2")) = 1
    /\ HookCalls(calls, "onSceneRender", "inp") = << >>

----------------------------------------------------------------------------
(* C21..C28 *)

\* C21: RayCast.remove(name) called directly after a remove of the same name, or
\* for a name under which nothing was ever added, leaves the owner map and the flat
\* pickable list exactly as they were.
C21_RemoveIdempotent ==
    [][ \A name \in RayNames :
            ( /\ lastOp' = Op("RayCast.remove", name, "", "")
              /\ \/ lastOp = Op("RayCast.remove", name, "", "")
                 \/ ~MapHas(raycastObjectMap, name) )
            => UNCHANGED << raycastObjectMap, raycastObjects >>
      ]_vars

\* C21 witness: remove has just been called for a name under which nothing was ever
\* added, a pickable object of another name being in the flat list
C21_Witness ==
    /\ lastOp.op = "RayCast.remove"
    /\ ~MapHas(raycastObjectMap, lastOp.a)
    /\ \E e \in Range(raycastObjects) : e.kind = "object"


\* C22: a render tick that runs while no camera manager is active only reschedules
\* itself: no awaiting object is promoted, ready or not, no start hook and no render
\* hook fires, the renderer is not asked to draw, and no field of the SceneManager
\* or of the RayCast changes.
C22_NoCameraTickOnlyReschedules ==
    [][ ( /\ ready' = ready
          /\ lastOp'.op = "renderLoop"
          /\ activeCameraManager = Null )
        => /\ calls' = << >>
           /\ error' = "none"
           /\ rafScheduled'
           /\ UNCHANGED << sceneObjectMap, inactiveObjNameMap, messageMap,
                           activeCameraManager, raycastObjectMap, raycastObjects,
                           inScene >>
      ]_vars

\* C22 witness: a tick has run without an active camera manager while a registered
\* object that is ready is still awaiting
C22_Witness ==
    /\ lastOp.op = "renderLoop"
    /\ activeCameraManager = Null
    /\ calls = << >>
    /\ \E o \in Objs : Awaiting(o) /\ ready[o]


\* the start hooks a tick fires: one for each awaiting name, in the order of the
\* awaiting set, whose registered object is ready
TickStartHooks ==
    LET names == SelectSeq(MapKeys(inactiveObjNameMap),
                           LAMBDA name : /\ MapHas(sceneObjectMap, name)
                                         /\ ready[MapGet(sceneObjectMap, name)])
    IN [i \in 1..Len(names) |->
           Call("onSceneStart", MapGet(sceneObjectMap, names[i]), "", "", 0)]

\* the render hooks a tick fires: one for each registered object, in registry order
TickRenderHooks ==
    LET sceneObjects == MapValues(sceneObjectMap)
    IN [i \in 1..Len(sceneObjects) |-> Call("onSceneRender", sceneObjects[i], "", "", 0)]

\* C23: on every tick with an active camera the calls are, in this order: the aspect
\* ratio and the matrices of the active camera are updated, the ready awaiting
\* objects get their start hooks, the renderer draws, and the render hook fires
\* exactly once on every registered object in registry insertion order.
C23_TickOrder ==
    [][ ( /\ ready' = ready
          /\ lastOp'.op = "renderLoop"
          /\ activeCameraManager # Null )
        => calls' = << Call("setAspectRatio", activeCameraManager, "", "", 0),
                       Call("updateMatrices", activeCameraManager, "", "", 0) >>
                    \o TickStartHooks
                    \o << Call("render", "renderer", "", "", 0) >>
                    \o TickRenderHooks
      ]_vars


\* the children on which the recorded calls made one hook, in the order of the calls
KidsCalled(cs, hook) ==
    LET kidCalls == SelectSeq(cs, LAMBDA c : c.hook = hook /\ c.obj \in GroupKids)
    IN [i \in DOMAIN kidCalls |-> kidCalls[i].obj]

\* every child added to the group answers isReady() with true
AllChildrenReady == \A i \in DOMAIN groupSceneObjects : ready[groupSceneObjects[i]]

\* C24: a SceneObjectGroup is ready exactly when every child added to it is ready (one
\* with no children is ready): registered while some child is not ready it is parked
\* as awaiting with no start hook and nothing added to the renderer, and it stays
\* parked at a tick until every child is ready; when it is registered ready or
\* promoted by a tick its start hook fires once and is forwarded once to each child
\* in the order the children were added, and so are a message sent to it, each
\* message queued for it, the render hook and the end hook.
C24_GroupForwards ==
    [][ ready' = ready
        => LET children == groupSceneObjects
               n == Len(children)
           IN /\ (lastOp'.op = "register" /\ lastOp'.a = "grp")
                 => /\ IF AllChildrenReady
                       THEN /\ Len(HookCalls(calls', "onSceneStart", "grp")) = 1
                            /\ KidsCalled(calls', "onSceneStart") = children
                            /\ InRenderer("grp")'
                       ELSE /\ NameAwaiting("grp")'
                            /\ HookCalls(calls', "onSceneStart", "grp") = << >>
                            /\ KidsCalled(calls', "onSceneStart") = << >>
                            /\ inScene' = inScene
                    /\ LET queued == messageMap["Group"]
                           got == SelectSeq(calls', LAMBDA c : c.hook = "onMessage"
                                                              /\ c.obj \in GroupKids)
                       IN /\ Len(got) = Len(queued) * n
                          /\ \A k \in DOMAIN got :
                                /\ got[k].obj = children[((k - 1) % n) + 1]
                                /\ got[k].from = queued[((k - 1) \div n) + 1].from
                                /\ got[k].data = queued[((k - 1) \div n) + 1].data
              /\ (lastOp'.op = "renderLoop" /\ activeCameraManager # Null
                      /\ Registered("grp"))
                 => /\ KidsCalled(calls', "onSceneRender") = children
                    /\ NameAwaiting("grp")
                       => IF AllChildrenReady
                          THEN /\ Len(HookCalls(calls', "onSceneStart", "grp")) = 1
                               /\ KidsCalled(calls', "onSceneStart") = children
                               /\ Active("grp")'
                          ELSE /\ NameAwaiting("grp")'
                               /\ HookCalls(calls', "onSceneStart", "grp") = << >>
                               /\ KidsCalled(calls', "onSceneStart") = << >>
                               /\ inScene' = inScene
              /\ (lastOp'.op = "unregister" /\ Registered("grp"))
                 => KidsCalled(calls', "onSceneEnd") = children
              /\ (lastOp'.op = "broadcastTo" /\ Registered("grp"))
                 => /\ KidsCalled(calls', "onMessage") = children
                    /\ \A c \in Range(calls') :
                          c.obj \in GroupKids => c.from = lastOp'.a /\ c.data = lastOp'.c
      ]_vars

\* C24 witness: a tick has promoted a group that was parked as awaiting, forwarding
\* the start hook and the render hook to its two different children in the order
\* they were added
C24_Witness ==
    /\ lastOp.op = "renderLoop"
    /\ Len(groupSceneObjects) = 2
    /\ groupSceneObjects[1] # groupSceneObjects[2]
    /\ Active("grp")
    /\ KidsCalled(calls, "onSceneStart") = groupSceneObjects
    /\ KidsCalled(calls, "onSceneRender") = groupSceneObjects


\* C25: in every reachable state every name in the awaiting-readiness set is a key of
\* the registry, so that the promotion step of a tick never looks up a name that is
\* no longer registered.
C25_AwaitingNamesRegistered ==
    \A i \in DOMAIN inactiveObjNameMap :
        MapHas(sceneObjectMap, inactiveObjNameMap[i].key)


\* C27: after any sequence of RayCast.add and RayCast.remove calls the flat pickable
\* list consists of exactly the objects held in the per-name lists of the owner map,
\* each element a pickable object and not a list; a removed name has no entry left
\* in the owner map, so that remove(name) followed by add(name, o) makes exactly o
\* pickable for that name.
C27_FlatListMatchesOwnerMap ==
    /\ [](/\ \A i \in DOMAIN raycastObjects : raycastObjects[i].kind = "object"
          /\ \A e \in Range(raycastObjects) \cup Range(FlatValues(raycastObjectMap)) :
                CountIn(raycastObjects, e) = CountIn(FlatValues(raycastObjectMap), e)
          /\ lastOp.op = "RayCast.remove" => ~MapHas(raycastObjectMap, lastOp.a))
    /\ [][ (lastOp.op = "RayCast.remove" /\ lastOp'.op = "RayCast.add"
                /\ lastOp'.a = lastOp.a)
           => RayListOf(raycastObjectMap', lastOp'.a) = << lastOp'.b >>
         ]_vars


\* C28: the end hook fires only for a registration whose start hook has already
\* fired, and removal from the renderer is only requested for drawables that were
\* added: addToScene and the start hook always go together, as removeFromScene and
\* the end hook do, so an object whose end hook fires was in the renderer, put there
\* with its start hook, when the call began.
C28_EndOnlyAfterStart ==
    [][ (ready' = ready /\ lastOp'.op = "unregister")
        => \A o \in AllObjs :
              HookCalls(calls', "onSceneEnd", o) # << >> => InRenderer(o)
      ]_vars


\* the object has drawables for the renderer to hold
HasDrawables(o) == drawablesOf(State, o) # << >>

\* C26: after any sequence of register, unregister and ticks the renderer holds
\* exactly the drawables of the objects that are currently registered and Active:
\* an object whose drawables are in the renderer is registered, and a registered
\* object whose name is not awaiting has its drawables in the renderer, whether an
\* object was registered twice, re-registered once ready, or replaced under its
\* name. (How the renderer treats a drawable it is asked to add a second time is
\* outside the sources; the renderer is modelled as the set of objects whose
\* drawables were added and not removed.)
C26_RendererHoldsActive ==
    \A o \in AllObjs :
        HasDrawables(o)
        => /\ InRenderer(o) => Registered(o)
           /\ (Registered(o) /\ ~NameAwaiting(o)) => InRenderer(o)

====
